---- MODULE Spec2Model ----
(***************************************************************************)
(* Model of the IEEE754 encoder of src/ieee754/IEEE754.py.                 *)
(*                                                                         *)
(* A decimal.Decimal is a record [kind, sign, digits, exp]: kind "F" is a  *)
(* finite number sign * digits * 10^exp (digits most significant first,    *)
(* as Decimal.as_tuple()), the other kinds are "Inf", "NaN" and "sNaN".    *)
(* A Python int that may be arbitrarily large is a sequence of decimal     *)
(* digits, most significant first.  A Python str is a sequence of          *)
(* one-character strings.  A Python float is modelled by its exact value.  *)
(***************************************************************************)
EXTENDS Integers, Sequences, FiniteSets, TLC

\* ------------------------------------------------------------------------
\* Constants of the program and of the arithmetic it runs on
\* ------------------------------------------------------------------------

\* getcontext().prec = 256
prec == 256

\* the threshold of the unable_to_scale flag
scale_limit == 100

exponent_list == <<5, 8, 11, 15, 19>>

mantissa_list == <<10, 23, 52, 112, 236>>

\* significand width of a Python float (IEEE binary64)
FloatSig == 53

\* 2^-1074 is the smallest positive Python float
FloatMinExp == 1074

\* 2^1024 is the first power of two that is no Python float
FloatMaxExp == 1024

\* ------------------------------------------------------------------------
\* Digit sequences (arbitrary-size naturals, most significant digit first)
\* ------------------------------------------------------------------------

\* (SubSeq makes the sequence a tuple of values rather than a rule to compute them)
Zeros(n) == SubSeq([i \in 1..n |-> 0], 1, n)

Min(a, b) == IF a < b THEN a ELSE b

Max(a, b) == IF a < b THEN b ELSE a

AllZero(d) == \A i \in 1..Len(d) : d[i] = 0

\* drop leading zeros, keeping one digit
Strip(d) ==
  IF AllZero(d) THEN <<0>>
  ELSE LET f == CHOOSE i \in 1..Len(d) : d[i] # 0 /\ \A j \in 1..(i-1) : d[j] = 0
       IN  SubSeq(d, f, Len(d))

\* 2 * d in base 10: the carry into a digit depends on the next lower digit only
Dbl(d) ==
  LET n == Len(d)
      r == [i \in 1..(n+1) |->
              (IF i = 1 THEN 0 ELSE (2 * d[i-1]) % 10)
              + (IF i <= n /\ d[i] >= 5 THEN 1 ELSE 0)]
  IN  IF r[1] = 0 THEN SubSeq(r, 2, n+1) ELSE SubSeq(r, 1, n+1)

\* Seven digits form a limb: 10^7 is a multiple of 2^k for k <= 7, so that in
\* d * 2^k + v and in d \div 2^k the carry into a limb depends on the next
\* limb only, and every intermediate value stays below 2^31.
LimbBase == 10 ^ 7

\* the value of the j-th group of seven digits of p
Limb7(p, j) ==
  p[7*j - 6] * 1000000 + p[7*j - 5] * 100000 + p[7*j - 4] * 10000
  + p[7*j - 3] * 1000 + p[7*j - 2] * 100 + p[7*j - 1] * 10 + p[7*j]

\* the limbs of the digits d, most significant first, with extra more limbs on top
LimbsOf(d, extra) ==
  LET L  == (Len(d) + 6) \div 7 + extra
      pd == Zeros(7 * L - Len(d)) \o d
  IN  SubSeq([j \in 1..L |-> Limb7(pd, j)], 1, L)

\* the digits of the limbs
DigitsOf(limbs) ==
  LET P == <<1000000, 100000, 10000, 1000, 100, 10, 1>>
  IN  Strip(SubSeq([p \in 1..(7 * Len(limbs)) |->
                      (limbs[(p - 1) \div 7 + 1] \div P[((p - 1) % 7) + 1]) % 10],
                   1, 7 * Len(limbs)))

\* d * 2^k + v for 0 <= k <= 7 and 0 <= v < 2^k
MulPow2(d, k, v) ==
  LET lim == LimbsOf(d, 1)
      L   == Len(lim)
      m   == 2 ^ k
  IN  DigitsOf(SubSeq([j \in 1..L |->
                         ((lim[j] * m) % LimbBase)
                         + (IF j < L THEN (lim[j+1] * m) \div LimbBase ELSE v)],
                      1, L))

\* d \div 2^k for 0 <= k <= 7
DivPow2(d, k) ==
  LET lim == LimbsOf(d, 0)
      L   == Len(lim)
      m   == 2 ^ k
  IN  DigitsOf(SubSeq([j \in 1..L |->
                         ((IF j > 1 THEN lim[j-1] % m ELSE 0) * LimbBase + lim[j]) \div m],
                      1, L))

\* d * 5^k for 0 <= k <= 7, as (d * 10^k) \div 2^k
MulPow5(d, k) == DivPow2(d \o Zeros(k), k)

Mul128(d) == MulPow2(d, 7, 0)

Div128(d) == DivPow2(d, 7)

Mul78125(d) == MulPow5(d, 7)

\* d * 2^k, d \div 2^k and d * 5^k for any k, 28 steps per level of recursion
\* (the test on the length makes each level compute its digits before the next)
RECURSIVE DblN(_, _)
DblN(d, k) ==
  IF Len(d) = 0 \/ k = 0 THEN d
  ELSE IF k >= 28 THEN DblN(Mul128(Mul128(Mul128(Mul128(d)))), k - 28)
  ELSE IF k >= 7 THEN DblN(Mul128(d), k - 7)
  ELSE MulPow2(d, k, 0)

RECURSIVE HlvN(_, _)
HlvN(d, k) ==
  IF Len(d) = 0 \/ k = 0 THEN d
  ELSE IF k >= 28 THEN HlvN(Div128(Div128(Div128(Div128(d)))), k - 28)
  ELSE IF k >= 7 THEN HlvN(Div128(d), k - 7)
  ELSE DivPow2(d, k)

RECURSIVE Mul5N(_, _)
Mul5N(d, k) ==
  IF Len(d) = 0 \/ k = 0 THEN d
  ELSE IF k >= 28 THEN Mul5N(Mul78125(Mul78125(Mul78125(Mul78125(d)))), k - 28)
  ELSE IF k >= 7 THEN Mul5N(Mul78125(d), k - 7)
  ELSE MulPow5(d, k)

\* d + 1 in the given base
Inc(d, base) ==
  IF \A i \in 1..Len(d) : d[i] = base - 1 THEN <<1>> \o Zeros(Len(d))
  ELSE LET p == CHOOSE i \in 1..Len(d) :
                  d[i] # base - 1 /\ \A j \in (i+1)..Len(d) : d[j] = base - 1
       IN  SubSeq([i \in 1..Len(d) |-> IF i < p THEN d[i] ELSE IF i = p THEN d[i] + 1 ELSE 0],
                  1, Len(d))

\* round d to its first keep digits (keep >= 1), ties to even; the result is
\* the digits kept and the number of digits dropped
RoundHalfEven(d, keep, base) ==
  IF Len(d) <= keep THEN [digits |-> d, dropped |-> 0]
  ELSE LET kept == SubSeq(d, 1, keep)
           f    == d[keep + 1]
           rest == \E i \in (keep+2)..Len(d) : d[i] # 0
           up   == \/ 2 * f > base
                   \/ 2 * f = base /\ (rest \/ kept[keep] % 2 = 1)
           r    == IF up THEN Inc(kept, base) ELSE kept
       IN  IF Len(r) > keep
           THEN [digits |-> SubSeq(r, 1, keep), dropped |-> Len(d) - keep + 1]
           ELSE [digits |-> r, dropped |-> Len(d) - keep]

\* the value of at most nine digits
RECURSIVE SmallSum(_, _)
SmallSum(d, i) ==
  IF i = 0 THEN 0
  ELSE d[i] * <<1, 10, 100, 1000, 10000, 100000, 1000000, 10000000, 100000000>>[Len(d) - i + 1]
       + SmallSum(d, i - 1)

SmallVal(d) == SmallSum(d, Len(d))

\* the nine digits of v < 10^9
Digits9(v) ==
  LET P == <<100000000, 10000000, 1000000, 100000, 10000, 1000, 100, 10, 1>>
  IN  SubSeq([i \in 1..9 |-> (v \div P[i]) % 10], 1, 9)

\* the value of the l-th group of nine digits of p
LimbVal(p, l) == SmallVal(SubSeq(p, 9 * l - 8, 9 * l))

\* a - b for a >= b, nine digits per level of recursion
RECURSIVE SubLimbs(_, _, _, _, _)
SubLimbs(pa, pb, l, borrow, acc) ==
  IF l = 0 \/ Len(acc) < 0 THEN acc
  ELSE IF LimbVal(pa, l) - LimbVal(pb, l) - borrow < 0
  THEN SubLimbs(pa, pb, l - 1, 1,
                Digits9(LimbVal(pa, l) - LimbVal(pb, l) - borrow + 1000000000) \o acc)
  ELSE SubLimbs(pa, pb, l - 1, 0,
                Digits9(LimbVal(pa, l) - LimbVal(pb, l) - borrow) \o acc)

SubDigits(a, b) ==
  LET L == (Len(a) + 8) \div 9
  IN  Strip(SubLimbs(Zeros(9 * L - Len(a)) \o a, Zeros(9 * L - Len(b)) \o b, L, 0, <<>>))

\* a + b, nine digits per level of recursion
RECURSIVE AddLimbs(_, _, _, _, _)
AddLimbs(pa, pb, l, carry, acc) ==
  IF l = 0 \/ Len(acc) < 0 THEN <<carry>> \o acc
  ELSE IF LimbVal(pa, l) + LimbVal(pb, l) + carry >= 1000000000
  THEN AddLimbs(pa, pb, l - 1, 1,
                Digits9(LimbVal(pa, l) + LimbVal(pb, l) + carry - 1000000000) \o acc)
  ELSE AddLimbs(pa, pb, l - 1, 0,
                Digits9(LimbVal(pa, l) + LimbVal(pb, l) + carry) \o acc)

AddDigits(a, b) ==
  LET L == (Max(Len(a), Len(b)) + 8) \div 9
  IN  Strip(AddLimbs(Zeros(9 * L - Len(a)) \o a, Zeros(9 * L - Len(b)) \o b, L, 0, <<>>))

\* comparison of two digit sequences without leading zeros: -1, 0 or 1
CmpDigits(a, b) ==
  IF Len(a) # Len(b) THEN (IF Len(a) < Len(b) THEN -1 ELSE 1)
  ELSE IF a = b THEN 0
  ELSE LET f == CHOOSE i \in 1..Len(a) : a[i] # b[i] /\ \A j \in 1..(i-1) : a[j] = b[j]
       IN  IF a[f] < b[f] THEN -1 ELSE 1

\* ------------------------------------------------------------------------
\* decimal.Decimal
\* ------------------------------------------------------------------------

Dec(s, d, e) == [kind |-> "F", sign |-> s, digits |-> d, exp |-> e]

Special(k, s) == [kind |-> k, sign |-> s, digits |-> <<0>>, exp |-> 0]

\* Decimal._fix: round the coefficient to the precision of the context
Fix(x) ==
  LET r == RoundHalfEven(x.digits, prec, 10)
  IN  Dec(x.sign, r.digits, x.exp + r.dropped)

IsZero(x) == x.kind = "F" /\ AllZero(x.digits)

copy_abs(x) == [x EXCEPT !.sign = 0]

\* number == int(number)
IsIntegral(x) ==
  \/ x.exp >= 0
  \/ AllZero(x.digits)
  \/ /\ -x.exp < Len(x.digits)
     /\ \A i \in (Len(x.digits) + x.exp + 1)..Len(x.digits) : x.digits[i] = 0

\* int(number) of a non-negative Decimal
ToInt(x) ==
  IF x.exp >= 0 THEN Strip(x.digits \o Zeros(x.exp))
  ELSE IF -x.exp >= Len(x.digits) THEN <<0>>
  ELSE Strip(SubSeq(x.digits, 1, Len(x.digits) + x.exp))

\* number * 2 in the context decimal starts with, of 28 digits
MulTwoDefaultContext(x) ==
  LET r == RoundHalfEven(Dbl(x.digits), 28, 10)
  IN  Dec(x.sign, r.digits, x.exp + r.dropped)

\* number * 2 in the context
MulTwo(x) == Fix(Dec(x.sign, Dbl(x.digits), x.exp))

\* the two coefficients of x and y over their common (smaller) exponent
Aligned(x, y) ==
  LET e == Min(x.exp, y.exp)
  IN  [a |-> Strip(x.digits \o Zeros(x.exp - e)),
       b |-> Strip(y.digits \o Zeros(y.exp - e)),
       exp |-> e]

\* comparison of the magnitudes of two finite Decimals: -1, 0 or 1
CmpAbs(x, y) ==
  LET al == Aligned(x, y) IN CmpDigits(al.a, al.b)

\* x - y of two finite Decimals, before the context rounds it
SubExact(x, y) ==
  LET al == Aligned(x, y)
      xa == IF x.sign = 1 THEN -1 ELSE 1
      ya == IF y.sign = 1 THEN -1 ELSE 1
      c  == CmpDigits(al.a, al.b)
  IN  IF x.sign # y.sign
      THEN Dec(x.sign, AddDigits(al.a, al.b), al.exp)
      ELSE IF c = 0 THEN Dec(0, <<0>>, al.exp)
      ELSE IF c > 0 THEN Dec(x.sign, SubDigits(al.a, al.b), al.exp)
      ELSE Dec(1 - x.sign, SubDigits(al.b, al.a), al.exp)

\* ------------------------------------------------------------------------
\* str
\* ------------------------------------------------------------------------

Rep(c, n) == SubSeq([i \in 1..n |-> c], 1, n)

BitChar(b) == IF b = 0 THEN "0" ELSE "1"

BitOf(c) == IF c = "1" THEN 1 ELSE 0

\* the seven low bits of v, as characters
Bits7(v) == SubSeq([i \in 1..7 |-> BitChar((v \div (2 ^ (7 - i))) % 2)], 1, 7)

\* f"{v:b}" of a natural below 2^31
RECURSIVE SmallBin(_)
SmallBin(v) ==
  IF v < 2 THEN <<BitChar(v)>> ELSE Append(SmallBin(v \div 2), BitChar(v % 2))

\* d % 128: 10^7 is a multiple of 128
Low7(d) == SmallVal(SubSeq(d, Max(1, Len(d) - 6), Len(d))) % 128

\* the 28 low bits of d, as characters
Low28(d) ==
  LET d1 == Div128(d)
      d2 == Div128(d1)
      d3 == Div128(d2)
  IN  Bits7(Low7(d3)) \o Bits7(Low7(d2)) \o Bits7(Low7(d1)) \o Bits7(Low7(d))

\* f"{d:b}" of an arbitrary natural, 28 bits per level of recursion; acc holds
\* the bits already taken from the low end
RECURSIVE IntToBinFrom(_, _)
IntToBinFrom(d, acc) ==
  IF Len(acc) < 0 \/ Len(d) <= 9 THEN SmallBin(SmallVal(d)) \o acc
  ELSE IntToBinFrom(HlvN(d, 28), Low28(d) \o acc)

IntToBin(d) == IntToBinFrom(d, <<>>)

\* ------------------------------------------------------------------------
\* float: a finite Python float is [inf |-> FALSE, sign, sig, e], the value
\* sign * sig * 2^e with sig a sequence of bits, most significant first
\* ------------------------------------------------------------------------

Flt(s, b, e) == [inf |-> FALSE, sign |-> s, sig |-> b, e |-> e]

FltInf(s) == [inf |-> TRUE, sign |-> s, sig |-> <<0>>, e |-> 0]

\* the value of the first i of a short sequence of bits
RECURSIVE BitsVal(_, _)
BitsVal(b, i) == IF i = 0 THEN 0 ELSE 2 * BitsVal(b, i - 1) + b[i]

\* the digits of the natural whose bits are b, seven bits per level of
\* recursion; acc holds the digits of the natural whose bits are b[1..i-1]
RECURSIVE BinToDigitsFrom(_, _, _)
BinToDigitsFrom(b, i, acc) ==
  IF Len(acc) = 0 \/ i > Len(b) THEN acc
  ELSE BinToDigitsFrom(b, Min(i + 7, Len(b) + 1),
         MulPow2(acc, Min(7, Len(b) - i + 1),
                 BitsVal(SubSeq(b, i, Min(i + 6, Len(b))), Min(7, Len(b) - i + 1))))

BinToDigits(b) == BinToDigitsFrom(b, 1, <<0>>)

\* Decimal(n * 2^q), exactly
Dyadic(s, n, q) ==
  IF q >= 0 THEN Dec(s, DblN(n, q), 0) ELSE Dec(s, Mul5N(n, -q), q)

\* Decimal(f) of a float: Decimal.from_float takes the ratio in lowest terms
FloatToDecimal(f) ==
  IF f.inf THEN Special("Inf", f.sign)
  ELSE IF AllZero(f.sig) THEN Dec(f.sign, <<0>>, 0)
  ELSE LET n    == Len(f.sig)
           last == CHOOSE i \in 1..n : f.sig[i] = 1 /\ \A j \in (i+1)..n : f.sig[j] = 0
           tz   == IF f.e < 0 THEN Min(n - last, -f.e) ELSE 0
       IN  Dyadic(f.sign, BinToDigits(SubSeq(f.sig, 1, n - tz)), f.e + tz)

\* the float nearest to the natural whose bits are b
IntToFloat(b) ==
  LET s == Strip(b)
      r == RoundHalfEven(s, FloatSig, 2)
  IN  Flt(0, r.digits, r.dropped)

\* 1 + a for a float 0 <= a <= 1
OnePlus(a) ==
  IF AllZero(a.sig) THEN Flt(0, <<1>>, 0)
  ELSE LET F == -a.e
           S == IF Len(a.sig) > F THEN <<1>> \o Zeros(F + 1)
                ELSE <<1>> \o Zeros(F - Len(a.sig)) \o a.sig
           r == RoundHalfEven(S, FloatSig, 2)
       IN  Flt(0, r.digits, r.dropped - F)

\* b * 2^k for a float b >= 1 without an overflow of the power: the product
\* is rounded on the grid of the subnormals and overflows to infinity
TimesPow2(b, k) ==
  LET low  == b.e + k
      top  == Len(b.sig) + low
      drop == -FloatMinExp - low
  IN  IF top > FloatMaxExp THEN FltInf(b.sign)
      ELSE IF drop <= 0 THEN Flt(b.sign, b.sig, low)
      ELSE IF drop > Len(b.sig) THEN Flt(b.sign, <<0>>, 0)
      ELSE IF drop = Len(b.sig)
           THEN (IF \E i \in 2..Len(b.sig) : b.sig[i] = 1
                 THEN Flt(b.sign, <<1>>, -FloatMinExp) ELSE Flt(b.sign, <<0>>, 0))
      ELSE LET r == RoundHalfEven(b.sig, Len(b.sig) - drop, 2)
           IN  Flt(b.sign, r.digits, low + r.dropped)

\* ------------------------------------------------------------------------
\* The arguments of IEEE754(number, precision, force_exponent, force_mantissa)
\* ------------------------------------------------------------------------

\* the value None of force_exponent and force_mantissa
None == -1

\* Decimal(number) of the text of a number: the tokens of the special values
\* are read as the decimal module reads them, the text of a finite number is
\* given by the Decimal it denotes
DecimalOf(number) ==
  CASE number.text = ""          -> Dec(0, <<0, 0>>, -1)
    [] number.text = "Infinity"  -> Special("Inf", 0)
    [] number.text = "-Infinity" -> Special("Inf", 1)
    [] number.text = "NaN"       -> Special("NaN", 0)
    [] number.text = "-NaN"      -> Special("NaN", 1)
    [] number.text = "sNaN"      -> Special("sNaN", 0)
    [] number.text = "-sNaN"     -> Special("sNaN", 1)
    [] OTHER                     -> number.dec

\* exponent_list[precision]: a Python list takes the indices -len .. len-1
InRange(precision, list) == precision >= -Len(list) /\ precision < Len(list)

Item(list, precision) ==
  IF precision >= 0 THEN list[precision + 1] ELSE list[Len(list) + precision + 1]

\* ------------------------------------------------------------------------
\* calculate_denormalized_range: the two bounds are Python floats
\* ------------------------------------------------------------------------

Bias(exponent_bits) == 2 ^ (exponent_bits - 1) - 1

\* 2 ** k: an int for k >= 0, else the float 2.0 ** k, 0.0 below 2^-1074
PowTwo(k) == IF k < -FloatMinExp THEN Flt(0, <<0>>, 0) ELSE Flt(0, <<1>>, k)

calculate_denormalized_range(exponent_bits, mantissa_bits) ==
  LET bias == Bias(exponent_bits)
      smallest_normalized == PowTwo(-(bias - 1))
      step == PowTwo(-mantissa_bits)
      smallest_denormalized ==
        IF AllZero(smallest_normalized.sig) \/ AllZero(step.sig)
        THEN Flt(0, <<0>>, 0)
        ELSE PowTwo(smallest_normalized.e + step.e)
      last == PowTwo(-(bias + mantissa_bits - 1))
      \* smallest_normalized - last = (2^mantissa_bits - 1) * last, rounded
      largest_denormalized ==
        IF AllZero(smallest_normalized.sig) \/ AllZero(last.sig)
        THEN smallest_normalized
        ELSE LET r == RoundHalfEven(Rep(1, mantissa_bits), FloatSig, 2)
             IN  Flt(0, r.digits, last.e + r.dropped)
  IN  <<FloatToDecimal(smallest_denormalized), FloatToDecimal(largest_denormalized)>>

\* ------------------------------------------------------------------------
\* validate_number: the outcome is the exception raised ("" for none), the
\* attributes it assigns and the Decimal it returns; a str is a sequence of
\* one-character strings, and <<>> stands for None in edge_case
\* ------------------------------------------------------------------------

\* f"{sign} {exponent} {mantissa}"
Joined(sign, exponent, mantissa) == sign \o <<" ">> \o exponent \o <<" ">> \o mantissa

\* every special value returned with the sign bit of the NaNs
EdgeCaseUnsigned(sign, exponent, mantissa, value) ==
  [raised |-> "", sign |-> <<"0">>, exponent |-> exponent, mantissa |-> mantissa,
   edge_case |-> Joined(<<"0">>, exponent, mantissa), number |-> value]

EdgeCase(sign, exponent, mantissa, value) ==
  [raised |-> "", sign |-> sign, exponent |-> exponent, mantissa |-> mantissa,
   edge_case |-> Joined(sign, exponent, mantissa), number |-> value]

Accepted(value) ==
  [raised |-> "", sign |-> <<>>, exponent |-> <<>>, mantissa |-> <<>>,
   edge_case |-> <<>>, number |-> value]

Rejected(exception) ==
  [raised |-> exception, sign |-> <<>>, exponent |-> <<>>, mantissa |-> <<>>,
   edge_case |-> <<>>, number |-> Dec(0, <<0>>, 0)]

TooSmall == "ValueError: we lost both exponent and mantissa"

ExponentLost == "ValueError: we lost exponent"

\* Decimal(number).copy_abs() < Decimal(bound)
Below(d, bound) == CmpAbs(d, bound) < 0

\* lines 148-159: the two comparisons with the bounds
range_check(d, denormalized_range) ==
  IF Below(d, denormalized_range[1]) THEN Rejected(TooSmall)
  ELSE IF Below(d, denormalized_range[2]) THEN Rejected(ExponentLost)
  ELSE Accepted(d)

\* lines 89-139: d is Decimal(number)
classify(exponent_bits, mantissa_bits, number, d) ==
  IF d.kind = "Inf"
  THEN (IF d.sign = 0
        THEN EdgeCase(<<"0">>, Rep("1", exponent_bits), Rep("0", mantissa_bits),
                      Special("Inf", 0))
        ELSE EdgeCase(<<"1">>, Rep("1", exponent_bits), Rep("0", mantissa_bits),
                      Special("Inf", 1)))
  ELSE IF d.kind = "sNaN"
  THEN EdgeCase(<<"0">>, Rep("1", exponent_bits),
                Rep("0", mantissa_bits - 1) \o <<"1">>, Special("NaN", 0))
  ELSE IF d.kind = "NaN"
  THEN EdgeCase(<<"0">>, Rep("1", exponent_bits),
                <<"1">> \o Rep("0", mantissa_bits - 1), Special("NaN", 0))
  ELSE IF ~(number = number)
  THEN EdgeCase(<<"0">>, Rep("1", exponent_bits), Rep("1", mantissa_bits),
                Special("NaN", 0))
  ELSE IF IsZero(d)
  THEN (IF d.sign = 1
        THEN EdgeCase(<<"1">>, Rep("0", exponent_bits), Rep("0", mantissa_bits),
                      Dec(0, <<0>>, 0))
        ELSE EdgeCase(<<"0">>, Rep("0", exponent_bits), Rep("0", mantissa_bits),
                      Dec(0, <<0>>, 0)))
  ELSE range_check(d, calculate_denormalized_range(exponent_bits, mantissa_bits))

validate_number(exponent_bits, mantissa_bits, number) ==
  classify(exponent_bits, mantissa_bits, number, DecimalOf(number))

\* ------------------------------------------------------------------------
\* The fields
\* ------------------------------------------------------------------------

find_sign(number) == IF number.sign = 1 /\ ~IsZero(number) THEN <<"1">> ELSE <<"0">>

\* the flag set from the hundredth doubling on
UnableToScaleAtLimit(scale) == scale >= scale_limit

\* self.output["unable_to_scale"] = scale > 100
UnableToScale(scale) == scale > scale_limit

\* f"{v:0{width}b}": the sign counts in the width, nothing is cut
FormatBin(v, width) ==
  LET b == SmallBin(IF v < 0 THEN -v ELSE v)
      s == IF v < 0 THEN <<"-">> ELSE <<>>
  IN  s \o Rep("0", Max(0, width - Len(s) - Len(b))) \o b

find_exponent(binary, bias, scale, exponent_bits) ==
  FormatBin(Len(binary) - 1 + bias - scale, exponent_bits)

find_mantissa(binary, mantissa_bits) ==
  LET rest     == SubSeq(binary, 2, Len(binary))
      mantissa == rest \o Rep("0", Max(0, mantissa_bits - Len(rest)))
  IN  IF Len(mantissa) > mantissa_bits
      THEN SubSeq(mantissa, 1, mantissa_bits - 1) \o <<"1">>
      ELSE mantissa

\* f"{binary[:-scale]}.{binary[-scale:]}"
binary_output(binary, scale) ==
  IF scale = 0 THEN <<".">> \o binary
  ELSE SubSeq(binary, 1, Len(binary) - scale) \o <<".">>
       \o SubSeq(binary, Max(1, Len(binary) - scale + 1), Len(binary))

__str__(self) ==
  IF self.edge_case # <<>> THEN self.edge_case
  ELSE Joined(self.sign, self.exponent, self.mantissa)

\* s.split(" ") of a str with two spaces
split(s) ==
  LET sp == {i \in 1..Len(s) : s[i] = " "}
      p1 == CHOOSE i \in sp : \A j \in sp : i <= j
      p2 == CHOOSE i \in sp : \A j \in sp : j <= i
  IN  <<SubSeq(s, 1, p1 - 1), SubSeq(s, p1 + 1, p2 - 1), SubSeq(s, p2 + 1, Len(s))>>

\* the bits of a str of "0" and "1"
BitsOf(s) == SubSeq([i \in 1..Len(s) |-> BitOf(s[i])], 1, Len(s))

\* int(s, 2) of a short str, with its sign
ParseBin(s) ==
  IF Len(s) > 0 /\ s[1] = "-"
  THEN -BitsVal(BitsOf(SubSeq(s, 2, Len(s))), Len(s) - 1)
  ELSE BitsVal(BitsOf(s), Len(s))

\* ------------------------------------------------------------------------
\* hex
\* ------------------------------------------------------------------------

\* hex(si)[2]
HexLower == <<"0", "1", "2", "3", "4", "5", "6", "7", "8", "9", "a", "b", "c", "d", "e", "f">>

\* str.upper of one character of HexLower
upper(c) ==
  CASE c = "a" -> "A" [] c = "b" -> "B" [] c = "c" -> "C"
    [] c = "d" -> "D" [] c = "e" -> "E" [] c = "f" -> "F" [] OTHER -> c

\* int(c) of a decimal digit; any other character raises ValueError
IsDigit(c) == c \in {"0", "1", "2", "3", "4", "5", "6", "7", "8", "9"}

\* sh[2] without the upper
HexDigitLower(si) == HexLower[si + 1]

\* sh[2], as h.upper() leaves it
HexDigit(si) == upper(HexLower[si + 1])

\* lines 202-204: s with zeros in front up to a multiple of four characters
padded(s) ==
  IF Len(s) % 4 # 0 THEN Rep("0", (Len(s) \div 4 + 1) * 4 - Len(s)) \o s ELSE s

\* lines 207-210: the value of the g-th group of four characters
group_value(s, g) ==
  BitOf(s[4*g - 3]) * 8 + BitOf(s[4*g - 2]) * 4 + BitOf(s[4*g - 1]) * 2 + BitOf(s[4*g])

\* lines 205-214: the loop over the groups of the padded s, limit characters
hex_loop(s, limit) ==
  IF \E i \in 1..limit : ~IsDigit(s[i])
  THEN [raised |-> "ValueError: invalid literal for int()", h |-> <<>>, hex_parts |-> <<>>]
  ELSE [raised    |-> "",
        h         |-> SubSeq([g \in 1..(limit \div 4) |-> HexDigit(group_value(s, g))],
                             1, limit \div 4),
        hex_parts |-> SubSeq([g \in 1..(limit \div 4) |-> SubSeq(s, 4*g - 3, 4*g)],
                             1, limit \div 4)]

hex_of(s) == hex_loop(s, Len(s) - (Len(s) % 4))

hex(self) == hex_of(padded(SelectSeq(__str__(self), LAMBDA c : c # " ")))

\* ------------------------------------------------------------------------
\* back_to_decimal_from_bits: the value is computed in Python floats
\* ------------------------------------------------------------------------

\* sign * (1 + mantissa * 2**-mantissa_bits) * 2**exponent, for exponent < 1024
float_value(sign, exponent, mantissa, mantissa_bits) ==
  IF exponent < -FloatMinExp THEN Flt(sign, <<0>>, 0)
  ELSE TimesPow2([OnePlus(IF mantissa_bits > FloatMinExp THEN Flt(0, <<0>>, 0)
                          ELSE TimesPow2(IntToFloat(mantissa), -mantissa_bits))
                  EXCEPT !.sign = sign],
                 exponent)

\* line 258: the error of the Decimal number
with_error(original_number, number) ==
  [raised |-> "",
   number |-> number,
   error  |-> IF number.kind = "Inf" THEN Special("Inf", 0)
              ELSE copy_abs(Fix(SubExact(original_number, number)))]

\* lines 254-259, on the three parts of the string
decode(self, sign, exponent, mantissa) ==
  IF Len(mantissa) > FloatMaxExp \/ exponent >= FloatMaxExp
  THEN [raised |-> "OverflowError", number |-> <<>>, error |-> <<>>]
  ELSE with_error(self.original_number,
                  FloatToDecimal(float_value(sign, exponent, mantissa, self.mantissa_bits)))

decode_parts(self, parts) ==
  decode(self, BitOf(parts[1][1]), ParseBin(parts[2]) - self.bias, Strip(BitsOf(parts[3])))

back_to_decimal_from_bits(self) == decode_parts(self, split(__str__(self)))

\* ------------------------------------------------------------------------
\* produce_output
\* ------------------------------------------------------------------------

\* lines 223-231
report_layout(self, output) ==
  [output EXCEPT !.number = self.original_number,
                 !.sign_bit = <<"1">>,
                 !.exponent_bits = self.exponent_bits,
                 !.mantissa_bits = self.mantissa_bits,
                 !.total_bits = 1 + self.exponent_bits + self.mantissa_bits,
                 !.sign = self.sign,
                 !.exponent = self.exponent,
                 !.mantissa = self.mantissa,
                 !.bias = self.bias]

\* the groups added to the list the mapping already holds
report_hexAppended(self, output, h) ==
  [output EXCEPT !.hexadecimal = h.h,
                 !.hexadecimal_parts = output.hexadecimal_parts \o h.hex_parts,
                 !.result = __str__(self)]

\* lines 232-233, h being what self.hex() returned
report_hex(self, output, h) ==
  [output EXCEPT !.hexadecimal = h.h,
                 !.hexadecimal_parts = h.hex_parts,
                 !.result = __str__(self)]

\* lines 235-237
report_scale(self, output) ==
  [output EXCEPT !.scale = self.scale,
                 !.scaled_number = self.number,
                 !.scaled_number_in_binary = self.binary]

\* lines 234-244, b being what self.back_to_decimal_from_bits() returns
report_value(self, output, b) ==
  IF self.edge_case # <<>>
  THEN [raised |-> "", output |-> [output EXCEPT !.edge_case = TRUE]]
  ELSE IF b.raised # ""
  THEN [raised |-> b.raised, output |-> report_scale(self, output)]
  ELSE [raised |-> "",
        output |-> [report_scale(self, output) EXCEPT !.converted_number = b.number,
                                                      !.error = b.error]]

\* lines 232-244, output being the mapping after lines 223-231
report(self, output, h) ==
  IF h.raised # "" THEN [raised |-> h.raised, output |-> output]
  ELSE report_value(self, report_hex(self, output, h), back_to_decimal_from_bits(self))

produce_output(self, output) == report(self, report_layout(self, output), hex(self))

\* ------------------------------------------------------------------------
\* The encoder as a state machine: one call of IEEE754(...), the doubling
\* loop of scale_up_to_integer step by step, then calls of str(), hex() and
\* json() on the instance
\* ------------------------------------------------------------------------

VARIABLES
  pc,       \* "start": the constructor is called; "scaling": it is in the loop of
            \* scale_up_to_integer; "ready": it returned; "raised": it raised
  args,     \* the arguments number, precision, force_exponent, force_mantissa
  self,     \* the attributes of the instance (<<>>: not assigned yet)
  local,    \* the locals number and scale of scale_up_to_integer
  output,   \* self.output
  raised,   \* the exception the constructor raised ("" for none)
  ret,      \* the last call on the instance and what it returned or raised: the
            \* str of str() and hex(), the groups of hex(), the mapping of json()
  calls,    \* the number of calls made on the instance
  reports   \* the mappings json() returned, in order

vars == <<pc, args, self, local, output, raised, ret, calls, reports>>

\* the inputs of the model
MaxN == 9

MaxK == 6

MaxE == 3

MaxM == 3

MaxPrecision == 5

MinPrecision == -(MaxPrecision + 1)

MaxCalls == 3

\* the text of a finite number, by the Decimal it denotes
Finite(d) == [text |-> "finite", dec |-> d]

\* the text of a special value
Token(t) == [text |-> t, dec |-> Dec(0, <<0>>, 0)]

\* "", the infinities and the NaNs, and "0", "-0", "0.0", "-0.0"
Specials ==
  {Token(""), Token("Infinity"), Token("-Infinity"), Token("NaN"), Token("-NaN"),
   Token("sNaN"), Token("-sNaN"),
   Finite(Dec(0, <<0>>, 0)), Finite(Dec(1, <<0>>, 0)),
   Finite(Dec(0, <<0, 0>>, -1)), Finite(Dec(1, <<0, 0>>, -1))}

\* n / 2^k and -n / 2^k written with k digits after the point
Grid ==
  {Finite(Dec(sg, Mul5N(Strip(Digits9(n)), k), -k)) : sg \in 0..1, n \in 1..MaxN, k \in 0..MaxK}

\* "13.375", "-0.75", "0.1", "1e10", "65536", "1e309", 2^60 + 1 and 1 + 2^-100
Samples ==
  {Finite(Dec(0, <<1, 3, 3, 7, 5>>, -3)), Finite(Dec(1, <<7, 5>>, -2)),
   Finite(Dec(0, <<1>>, -1)), Finite(Dec(0, <<1>>, 10)),
   Finite(Dec(0, <<6, 5, 5, 3, 6>>, 0)), Finite(Dec(0, <<1>>, 309)),
   Finite(Dec(0, AddDigits(DblN(<<1>>, 60), <<1>>), 0)),
   Finite(Dec(0, AddDigits(<<1>> \o Zeros(100), Mul5N(<<1>>, 100)), -100))}

\* 2^-(bias - 1 + mantissa_bits) and its half, written in full
Boundary(exponent_bits, mantissa_bits) ==
  {Finite(Dyadic(0, <<1>>, -(Bias(exponent_bits) - 1 + mantissa_bits))),
   Finite(Dyadic(0, <<1>>, -(Bias(exponent_bits) + mantissa_bits)))}

Call(number, precision, force_exponent, force_mantissa) ==
  [number |-> number, precision |-> precision,
   force_exponent |-> force_exponent, force_mantissa |-> force_mantissa]

\* the presets, on the special values, on the samples and at their boundaries
PresetInputs ==
  {Call(x, p, None, None) : x \in Specials \cup Samples, p \in 0..4}
  \cup UNION {{Call(x, p, None, None) : x \in Boundary(exponent_list[p + 1], mantissa_list[p + 1])}
              : p \in 0..2}

\* small layouts of the caller's own, on the special values and on the grid
CustomInputs ==
  {Call(x, 2, lay[1], lay[2]) : x \in Specials \cup Grid, lay \in (1..MaxE) \X (1..MaxM)}

\* layouts whose bounds leave the range of the floats
WideInputs ==
  {Call(x, 2, 11, 53) : x \in Boundary(11, 53)}
  \cup {Call(Finite(Dec(0, <<1>>, -617)), 2, 12, 2)}
  \cup {Call(Finite(Dyadic(0, <<1>>, -400)), 3, None, None)}

\* every index around the two lists, with and without the two overrides
IndexInputs ==
  {Call(Finite(Dec(0, <<1, 3, 3, 7, 5>>, -3)), p, fe, fm) :
     p \in MinPrecision..MaxPrecision, fe \in {None, 5}, fm \in {None, 10}}

Inputs == PresetInputs \cup CustomInputs \cup WideInputs \cup IndexInputs

\* the attributes before the constructor has assigned them, and self.output
\* as line 51 builds it
Unassigned ==
  [precision |-> <<>>, exponent_bits |-> <<>>, mantissa_bits |-> <<>>, bias |-> <<>>,
   edge_case |-> <<>>, number |-> <<>>, original_number |-> <<>>, sign |-> <<>>,
   scale |-> <<>>, binary |-> <<>>, binary_output |-> <<>>, exponent |-> <<>>,
   mantissa |-> <<>>, converted_number |-> <<>>, error |-> <<>>]

InitialOutput ==
  [number |-> <<>>, edge_case |-> FALSE, sign_bit |-> <<>>, exponent_bits |-> <<>>,
   mantissa_bits |-> <<>>, total_bits |-> <<>>, sign |-> <<>>, scale |-> <<>>,
   scaled_number |-> <<>>, scaled_number_in_binary |-> <<>>, unable_to_scale |-> FALSE,
   bias |-> <<>>, exponent |-> <<>>, mantissa |-> <<>>, result |-> <<>>,
   hexadecimal |-> <<>>, hexadecimal_parts |-> <<>>, converted_number |-> <<>>,
   error |-> <<>>]

NoCall == [op |-> "", raised |-> "", text |-> <<>>, parts |-> <<>>, mapping |-> <<>>]

Init ==
  /\ pc = "start"
  /\ args \in Inputs
  /\ self = Unassigned
  /\ local = [number |-> <<>>, scale |-> 0]
  /\ output = InitialOutput
  /\ raised = ""
  /\ ret = NoCall
  /\ calls = 0
  /\ reports = <<>>

\* exponent_list[self.precision] and mantissa_list[self.precision] exist, or
\* are not asked for
LayoutFound ==
  /\ args.force_exponent # None \/ InRange(args.precision, exponent_list)
  /\ args.force_mantissa # None \/ InRange(args.precision, mantissa_list)

\* lines 38-50 and 72-73
layout(exponent_bits, mantissa_bits) ==
  [self EXCEPT !.precision = args.precision,
               !.exponent_bits = exponent_bits,
               !.mantissa_bits = mantissa_bits,
               !.bias = Bias(exponent_bits)]

\* lines 74-78, v being what validate_number did
validated(s, v) ==
  IF v.raised # ""
  THEN /\ pc' = "raised"
       /\ raised' = v.raised
       /\ self' = s
       /\ UNCHANGED <<local, output>>
  ELSE IF v.edge_case # <<>>
  THEN /\ pc' = "ready"
       /\ self' = [s EXCEPT !.sign = v.sign, !.exponent = v.exponent,
                            !.mantissa = v.mantissa, !.edge_case = v.edge_case,
                            !.number = v.number, !.original_number = v.number]
       /\ UNCHANGED <<local, output, raised>>
  ELSE /\ pc' = "scaling"
       /\ self' = [s EXCEPT !.original_number = v.number,
                            !.sign = find_sign(v.number),
                            !.number = copy_abs(v.number)]
       /\ local' = [number |-> copy_abs(v.number), scale |-> 0]
       /\ UNCHANGED <<output, raised>>

construct(exponent_bits, mantissa_bits) ==
  validated(layout(exponent_bits, mantissa_bits),
            validate_number(exponent_bits, mantissa_bits, args.number))

\* __init__ up to the loop of scale_up_to_integer
Construct ==
  /\ pc = "start"
  /\ IF ~LayoutFound
     THEN /\ pc' = "raised"
          /\ raised' = "IndexError"
          /\ self' = [self EXCEPT !.precision = args.precision]
          /\ UNCHANGED <<local, output>>
     ELSE construct(IF args.force_exponent # None THEN args.force_exponent
                    ELSE Item(exponent_list, args.precision),
                    IF args.force_mantissa # None THEN args.force_mantissa
                    ELSE Item(mantissa_list, args.precision))
  /\ UNCHANGED <<args, ret, calls, reports>>

\* one turn of the loop: number *= base; scale += 1
ScaleStep ==
  /\ pc = "scaling"
  /\ ~IsIntegral(local.number)
  /\ local' = [number |-> MulTwo(local.number), scale |-> local.scale + 1]
  /\ UNCHANGED <<pc, args, self, output, raised, ret, calls, reports>>

\* lines 79-85: the attributes set from the integer and its binary digits
encoded(number, binary) ==
  [self EXCEPT !.scale = local.scale,
               !.number = number,
               !.binary = binary,
               !.binary_output = binary_output(binary, local.scale),
               !.exponent = find_exponent(binary, self.bias, local.scale, self.exponent_bits),
               !.mantissa = find_mantissa(binary, self.mantissa_bits)]

\* line 86, b being what back_to_decimal_from_bits returns on s
decoded(s, b) ==
  IF b.raised # ""
  THEN /\ pc' = "raised"
       /\ raised' = b.raised
       /\ self' = s
  ELSE /\ pc' = "ready"
       /\ self' = [s EXCEPT !.converted_number = b.number, !.error = b.error]
       /\ UNCHANGED raised

finish(s) == decoded(s, back_to_decimal_from_bits(s))

encode(number) == finish(encoded(number, IntToBin(number)))

\* the loop ends; the rest of scale_up_to_integer and of __init__
ScaleExit ==
  /\ pc = "scaling"
  /\ IsIntegral(local.number)
  /\ output' = [output EXCEPT !.unable_to_scale = UnableToScale(local.scale)]
  /\ encode(ToInt(local.number))
  /\ UNCHANGED <<args, local, ret, calls, reports>>

\* str(x)
Str ==
  /\ pc = "ready"
  /\ calls < MaxCalls
  /\ calls' = calls + 1
  /\ ret' = [NoCall EXCEPT !.op = "str", !.text = __str__(self)]
  /\ UNCHANGED <<pc, args, self, local, output, raised, reports>>

\* x.hex()
hex_returns(r) ==
  ret' = [NoCall EXCEPT !.op = "hex", !.raised = r.raised, !.text = r.h, !.parts = r.hex_parts]

Hex ==
  /\ pc = "ready"
  /\ calls < MaxCalls
  /\ calls' = calls + 1
  /\ hex_returns(hex(self))
  /\ UNCHANGED <<pc, args, self, local, output, raised, reports>>

\* x.json()
json_returns(r) ==
  /\ output' = r.output
  /\ ret' = [NoCall EXCEPT !.op = "json", !.raised = r.raised,
                           !.mapping = IF r.raised = "" THEN <<r.output>> ELSE <<>>]
  /\ reports' = IF r.raised = "" THEN Append(reports, r.output) ELSE reports

Json ==
  /\ pc = "ready"
  /\ calls < MaxCalls
  /\ calls' = calls + 1
  /\ json_returns(produce_output(self, output))
  /\ UNCHANGED <<pc, args, self, local, raised>>

Next == Construct \/ ScaleStep \/ ScaleExit \/ Str \/ Hex \/ Json

Spec == Init /\ [][Next]_vars

\* the condition of the while of line 177 is false
LoopEnded == pc # "scaling" \/ IsIntegral(local.number)

\* the loop of scale_up_to_integer is sequential code: while its condition
\* holds, the next turn is taken. This is the weak fairness of ScaleStep,
\* which is enabled exactly when LoopEnded is false
FairSpec ==
  /\ Init /\ [][Next]_vars
  /\ ([]<>LoopEnded \/ []<><<ScaleStep>>_vars)

\* ------------------------------------------------------------------------
\* Properties
\* ------------------------------------------------------------------------

\* the constructor returned an encoding of a finite, non-zero number
Normal == pc = "ready" /\ self.edge_case = <<>>

\* the encoded string without its two spaces
BitString == SelectSeq(__str__(self), LAMBDA c : c # " ")

AllAre(s, c) == \A i \in 1..Len(s) : s[i] = c

\* the decoded exponent field minus the bias
UnbiasedExponent == ParseBin(self.exponent) - self.bias

\* C1: for every layout and every input accepted as Normal, the error of the
\* value rebuilt by back_to_decimal_from_bits is at most
\* 2^(unbiased_exponent - mantissa_bits), also when the mantissa was cut and
\* its last bit forced to 1.
C1_ErrorBound ==
  Normal =>
    /\ self.error.kind = "F"
    /\ CmpAbs(self.error, Dyadic(0, <<1>>, UnbiasedExponent - self.mantissa_bits)) <= 0

\* C2: for every successful encode the exponent field has exactly
\* exponent_bits characters and the mantissa field exactly mantissa_bits, so
\* that the bit string has 1 + exponent_bits + mantissa_bits characters.
C2_WidthInvariant ==
  pc = "ready" =>
    /\ Len(self.exponent) = self.exponent_bits
    /\ Len(self.mantissa) = self.mantissa_bits
    /\ Len(BitString) = 1 + self.exponent_bits + self.mantissa_bits

\* C3: the text "NaN" in the single layout is encoded with sign 0, an
\* exponent field of all ones and a mantissa field of all ones.
C3_NaNAllOnes ==
  (pc = "ready" /\ args = Call(Token("NaN"), 1, None, None)) =>
    /\ self.sign = <<"0">>
    /\ Len(self.exponent) = 8 /\ AllAre(self.exponent, "1")
    /\ Len(self.mantissa) = 23 /\ AllAre(self.mantissa, "1")

\* bias - 1 + mantissa_bits of the layout the constructor chose
Shift == self.bias - 1 + self.mantissa_bits

\* the constructor chose a layout and the argument is the finite number
\* 2^-q or -(2^-q), written in full
IsPowerOfTwo(q) ==
  /\ pc # "start" /\ raised # "IndexError"
  /\ args.number.text = "finite"
  /\ args.number.dec.exp = -q
  /\ copy_abs(args.number.dec) = Dyadic(0, <<1>>, -q)

\* C4: for every layout, a Normal input of magnitude exactly
\* smallest_denormalized = 2^-(bias-1) * 2^-mantissa_bits is encoded, and the
\* magnitude one unit below it, 2^-(bias + mantissa_bits), is rejected with
\* "we lost both exponent and mantissa".
C4_TooSmallBoundary ==
  /\ IsPowerOfTwo(Shift) => raised = ""
  /\ IsPowerOfTwo(Shift + 1) => (pc = "raised" /\ raised = TooSmall)

\* the argument is one of the given texts
InputIs(texts) == args.number.text \in texts

\* the argument is a zero of the given sign; "" stands for "0.0"
ZeroInput(sign) ==
  \/ sign = 0 /\ InputIs({""})
  \/ InputIs({"finite"}) /\ AllZero(args.number.dec.digits) /\ args.number.dec.sign = sign

SpecialInput ==
  InputIs({"", "Infinity", "-Infinity", "NaN", "-NaN", "sNaN", "-sNaN"})
  \/ ZeroInput(0) \/ ZeroInput(1)

\* the mantissa field is 0...0 with a 1 at position p only
MantissaOneAt(p) ==
  \A i \in 1..Len(self.mantissa) : self.mantissa[i] = IF i = p THEN "1" ELSE "0"

\* the three fields of the instance: the sign, the exponent field made of
\* the character e and the mantissa field with its only 1 at p (none if p = 0)
Pattern(sign, e, p) ==
  /\ self.sign = <<sign>>
  /\ AllAre(self.exponent, e)
  /\ MantissaOneAt(p)

\* C5: in every layout a special value gets its fixed bit pattern without
\* the scaler running: +0 is 0 0...0 0...0 and -0 the same with sign 1,
\* +Infinity is 0 1...1 0...0 and -Infinity the same with sign 1, a signaling
\* NaN is 0 1...1 0...01 and a quiet NaN is 0 1...1 10...0.
C5_SpecialPatterns ==
  (SpecialInput /\ pc # "start") =>
    /\ pc = "ready"
    /\ local.scale = 0 /\ self.scale = <<>> /\ self.binary = <<>>
    /\ Len(self.exponent) = self.exponent_bits
    /\ Len(self.mantissa) = self.mantissa_bits
    /\ __str__(self) = self.sign \o <<" ">> \o self.exponent \o <<" ">> \o self.mantissa
    /\ ZeroInput(0) => Pattern("0", "0", 0)
    /\ ZeroInput(1) => Pattern("1", "0", 0)
    /\ InputIs({"Infinity"}) => Pattern("0", "1", 0)
    /\ InputIs({"-Infinity"}) => Pattern("1", "1", 0)
    /\ InputIs({"sNaN", "-sNaN"}) => Pattern("0", "1", self.mantissa_bits)
    /\ InputIs({"NaN", "-NaN"}) => Pattern("0", "1", 1)

\* a signaling NaN and minus infinity encoded in layouts of the caller's own
C5_Witness ==
  /\ pc = "ready"
  /\ args.force_exponent = 2 /\ args.force_mantissa = 3
  /\ \/ InputIs({"sNaN"}) /\ __str__(self) = <<"0", " ", "1", "1", " ", "0", "0", "1">>
     \/ InputIs({"-Infinity"}) /\ __str__(self) = <<"1", " ", "1", "1", " ", "0", "0", "0">>

\* the indices of the five presets
Presets == 0..(Len(exponent_list) - 1)

\* C6: a constructor call with a precision outside 0..4, negative or 5 and
\* more, and with neither force_exponent nor force_mantissa always fails
\* with the out-of-range error and never returns an encoding.
C6_PresetOutOfRange ==
  (/\ pc # "start"
   /\ args.force_exponent = None /\ args.force_mantissa = None
   /\ args.precision \notin Presets)
    => (pc = "raised" /\ raised = "IndexError")

\* the sixteen uppercase hex digits, by value
UpperHex == <<"0", "1", "2", "3", "4", "5", "6", "7", "8", "9", "A", "B", "C", "D", "E", "F">>

IsBits(s) == \A i \in 1..Len(s) : s[i] \in {"0", "1"}

\* the digits of the natural that the hex digits h denote, two hex digits
\* per level of recursion; acc holds the natural of h[1..i-1]
RECURSIVE HexToDigitsFrom(_, _, _)
HexToDigitsFrom(h, i, acc) ==
  IF Len(acc) = 0 \/ i > Len(h) THEN acc
  ELSE LET v(c) == CHOOSE x \in 0..15 : UpperHex[x + 1] = c
       IN  IF i = Len(h) THEN MulPow2(acc, 4, v(h[i]))
           ELSE HexToDigitsFrom(h, i + 2, MulPow2(MulPow2(acc, 4, v(h[i])), 4, v(h[i + 1])))

\* h and parts are what hex() has to return for the bit string s: n digits
\* and n groups of four, the groups being s with pad zeros in front, each
\* digit the value 8*b0 + 4*b1 + 2*b2 + b3 of its group, and h denoting the
\* integer that s denotes
HexRenders(s, h, parts, n, pad) ==
  /\ n = (Len(s) + 3) \div 4
  /\ Len(h) = n /\ Len(parts) = n
  /\ \A g \in 1..n :
       /\ Len(parts[g]) = 4
       /\ \A j \in 1..4 :
            parts[g][j] = IF 4 * (g - 1) + j <= pad THEN "0" ELSE s[4 * (g - 1) + j - pad]
       /\ h[g] = UpperHex[8 * BitOf(parts[g][1]) + 4 * BitOf(parts[g][2])
                          + 2 * BitOf(parts[g][3]) + BitOf(parts[g][4]) + 1]
  /\ HexToDigitsFrom(h, 1, <<0>>) = BinToDigits(BitsOf(s))

\* C7: for every encoded bit string of width W, hex() returns ceil(W/4)
\* uppercase hex digits and the list of 4-bit groups; the groups concatenated
\* are the bit string with zeros in front up to a multiple of four, digit i
\* is the value 8*b0+4*b1+2*b2+b3 of group i, and so the hex string denotes
\* the integer of the bit string; 13.375 in half is "0 10010 1010110000"
\* and "4AB0".
C7_HexRendering ==
  (pc = "ready" /\ ret.op = "hex" /\ IsBits(BitString)) =>
    /\ ret.raised = ""
    /\ HexRenders(BitString, ret.text, ret.parts, Len(ret.text),
                  4 * Len(ret.text) - Len(BitString))
    /\ args = Call(Finite(Dec(0, <<1, 3, 3, 7, 5>>, -3)), 0, None, None) =>
         /\ __str__(self) = <<"0", " ", "1", "0", "0", "1", "0", " ",
                              "1", "0", "1", "0", "1", "1", "0", "0", "0", "0">>
         /\ ret.text = <<"4", "A", "B", "0">>

\* hex() returned for -0.75 in the layout (3, 2), six bits padded to eight
C7_Witness ==
  /\ pc = "ready" /\ ret.op = "hex" /\ ret.raised = ""
  /\ BitString = <<"1", "0", "1", "0", "1", "0">>
  /\ ret.text = <<"2", "A">>
  /\ ret.parts = <<<<"0", "0", "1", "0">>, <<"1", "0", "1", "0">>>>

\* C8: on any encoded result, after any sequence of str(), hex() and json()
\* calls a further json() call returns a mapping with exactly the contents of
\* the first json() call, and str() and hex() change no field of the
\* instance.
C8_ReportIdempotent ==
  [][calls' # calls =>
       /\ ret'.op \in {"str", "hex"} => (self' = self /\ output' = output)
       /\ ret'.op = "json" =>
            /\ self' = self
            /\ Len(reports) > 0 => (ret'.raised = "" /\ ret'.mapping = <<reports[1]>>)]_vars

\* json(), then str() or hex(), then json() again on the encoding of a
\* finite, non-zero number
C8_Witness ==
  /\ Normal
  /\ calls = 3 /\ ret.op = "json" /\ ret.raised = ""
  /\ Len(reports) = 2 /\ reports[2] = reports[1]
  /\ reports[1].hexadecimal_parts # <<>>

\* scale_up_to_integer returned: the instance holds its scale and its integer
ScalerReturned == Normal \/ (pc = "raised" /\ raised = "OverflowError")

\* magnitude * 2^scale, with no rounding
Doubled(x, scale) == Dec(0, DblN(x.digits, scale), x.exp)

\* value is magnitude * 2^scale exactly, and no smaller number of doublings
\* makes the magnitude an integer
ScaledExactly(x, scale, value) ==
  /\ CmpAbs(value, Doubled(x, scale)) = 0
  /\ scale = 0 \/ ~IsIntegral(Doubled(x, scale - 1))

\* x * 2^k is an integer for some k: x is an integer, or its last digit that
\* is not zero is a 5 and its coefficient is a multiple of 5^-exp
IsDyadic(x) ==
  \/ IsIntegral(x)
  \/ /\ \E i \in 1..Len(x.digits) :
          x.digits[i] = 5 /\ \A j \in (i + 1)..Len(x.digits) : x.digits[j] = 0
     /\ IsIntegral(Doubled(x, -x.exp))

\* the number of digits from the first to the last that is not zero
SignificantDigits(d) ==
  LET nz == {i \in 1..Len(d) : d[i] # 0}
  IN  IF nz = {} THEN 1
      ELSE (CHOOSE i \in nz : \A j \in nz : j <= i) - (CHOOSE i \in nz : \A j \in nz : i <= j) + 1

\* the original claim C9: for every input accepted as Normal, the integer
\* that scale_up_to_integer returns is the magnitude times 2^scale exactly,
\* and scale is the smallest number of doublings that gives an integer.
C9_ScalerExact ==
  ScalerReturned =>
    /\ IsIntegral(Doubled(self.original_number, self.scale))
    /\ ScaledExactly(self.original_number, self.scale, Dec(0, self.number, 0))

\* C9, amended: for every input accepted as Normal whose magnitude is a
\* dyadic rational of at most 256 significant digits, no doubling of the
\* loop rounds, and the integer that scale_up_to_integer returns is the
\* magnitude times 2^scale exactly, scale being the smallest number of
\* doublings that gives an integer.
C9_ScalerExactOnDyadic ==
  /\ (/\ pc = "scaling"
      /\ SignificantDigits(self.original_number.digits) <= prec
      /\ IsDyadic(self.original_number))
       => ScaledExactly(self.original_number, local.scale, local.number)
  /\ (/\ ScalerReturned
      /\ SignificantDigits(self.original_number.digits) <= prec
      /\ IsDyadic(self.original_number))
       => /\ self.scale = local.scale
          /\ IsIntegral(Doubled(self.original_number, self.scale))
          /\ ScaledExactly(self.original_number, self.scale, Dec(0, self.number, 0))

\* 1 + 2^-100, of 101 digits, scaled by exactly 100 doublings to 2^100 + 1
C9_Witness ==
  /\ Normal
  /\ self.original_number = Dec(0, AddDigits(<<1>> \o Zeros(100), Mul5N(<<1>>, 100)), -100)
  /\ self.scale = 100
  /\ self.number = AddDigits(DblN(<<1>>, 100), <<1>>)

SpecialEncodings(exponent_bits, mantissa_bits) ==
  {validate_number(exponent_bits, mantissa_bits, t).edge_case : t \in Specials}

\* the mantissa field is one of the Infinity and NaN patterns: 0...0, 0...01,
\* 10...0 or 1...1
SpecialMantissa ==
  \/ MantissaOneAt(0) \/ MantissaOneAt(self.mantissa_bits) \/ MantissaOneAt(1)
  \/ AllAre(self.mantissa, "1")

\* C11: for every layout, the bit string produced for an accepted Normal
\* (finite, non-zero) input never equals the bit string of a special value:
\* its exponent field is never all ones with a mantissa field equal to an
\* Infinity or NaN pattern, and it is never the all-zero pattern of +0 and -0.
C11_NoSpecialCollision ==
  Normal =>
    /\ __str__(self) \notin SpecialEncodings(self.exponent_bits, self.mantissa_bits)
    /\ ~(AllAre(self.exponent, "1") /\ SpecialMantissa)
    /\ ~(AllAre(self.exponent, "0") /\ AllAre(self.mantissa, "0"))

====
